---- MODULE Spec2Model ----
(***************************************************************************)
(* Model of app.py: a Streamlit script that loads a reference workbook,    *)
(* derives selector lists and lookup dictionaries from it, renders three   *)
(* forms (CMR, Specification, Invoice), appends a record on submission    *)
(* and offers each table for download as an Excel file.                    *)
(*                                                                         *)
(* Every user interaction re-executes main() from its first line; one      *)
(* action of the session specification is one complete execution of main.  *)
(*                                                                         *)
(* Strings of the source are written in ASCII here:                        *)
(*   sheets   "Sender" (Otpravitel), "ReceiverCarrier" (Poluchatel i       *)
(*            perevozchik), "ExtraData" (dop dannye)                       *)
(*   columns  "CompanyName" (Naimenovanie kompanii), "CompanyAddress"      *)
(*            (Adres kompanii), "Name" (Naimenovanie), "Address" (Adres),  *)
(*            "OGRN.1", "DeliveryTerms" (Usloviya postavki)                *)
(***************************************************************************)
EXTENDS Integers, Sequences, FiniteSets, TLC

VARIABLES
    disk,          \* the file at workbook_path: its kind and, for an Excel file, its sheets
    cache,         \* st.cache_data entries of load_workbook: path -> parsed workbook
    run,           \* how the last execution of main ended
    exc,           \* the exception that left the last execution uncaught
    st_error,      \* TRUE when the last execution showed its st.error message
    readSource,    \* TRUE when the last execution ran the body of load_workbook
    data,          \* main's local 'data' (dict of DataFrames)
    lists,         \* main's local 'lists'
    cmr_rows,      \* main's local 'cmr_rows' at the end of the last execution
    spec_rows,     \* main's local 'spec_rows'
    invoice_rows,  \* main's local 'invoice_rows'
    pressed,       \* the form_submit_button that returned True in the last execution
    downloads,     \* the bytes handed to each st.download_button
    dfs,           \* argument of a direct call of to_excel_bytes
    excel          \* result of that call

vars == <<disk, cache, run, exc, st_error, readSource, data, lists,
          cmr_rows, spec_rows, invoice_rows, pressed, downloads, dfs, excel>>

-----------------------------------------------------------------------------
(* Bounds of the model *)

\* most data rows a workbook holds, over all its sheets
MaxWorkbookRows == 2

\* most records in a DataFrame passed directly to to_excel_bytes
MaxExportRows == 2

-----------------------------------------------------------------------------
(* Values *)

\* pandas' missing value (float nan), Python's None and the empty string
NaN == "<NaN>"
None == "<None>"
Empty == ""

workbook_path == "workbook.xlsx"

SenderSheet == "Sender"
ReceiverSheet == "ReceiverCarrier"
ExtraSheet == "ExtraData"

\* The columns a sheet of the file may carry
SheetColumns(sheet) ==
    CASE sheet = SenderSheet -> {"CompanyName", "CompanyAddress"}
      [] sheet = ReceiverSheet -> {"Name", "Address", "OGRN.1"}
      [] sheet = ExtraSheet -> {"DeliveryTerms"}

\* The text a cell of a column may hold in the file; "" is an empty cell
CellTexts(col) ==
    CASE col \in {"CompanyName", "Name"} -> {Empty, "Acme", "Bolt"}
      [] col \in {"CompanyAddress", "Address"} -> {Empty, "123 Rd", "999 Rd"}
      [] col = "OGRN.1" -> {Empty, "1027"}
      [] col = "DeliveryTerms" -> {Empty, "FOB", "CIF"}

AllCellTexts == {Empty, "Acme", "Bolt", "123 Rd", "999 Rd", "1027", "FOB", "CIF"}

\* Python dicts are functions; {} is the function with the empty domain
EmptyDict == [k \in {} |-> Empty]

DictSet(d, k, v) == [x \in (DOMAIN d) \cup {k} |-> IF x = k THEN v ELSE d[x]]

DictGet(d, k, default) == IF k \in DOMAIN d THEN d[k] ELSE default

\* A sheet of the file with n data rows: a header (its columns) and the rows
SheetsOfSize(sheet, n) ==
    UNION { { [columns |-> c, rows |-> r] :
                r \in [1..n -> { f \in [c -> AllCellTexts] :
                                   \A k \in c : f[k] \in CellTexts(k) }] } :
            c \in SUBSET SheetColumns(sheet) }

-----------------------------------------------------------------------------
(* load_workbook *)

\* excel_file.parse: an empty cell is read as NaN, any other cell as its value
ParseCell(text) == IF text = Empty THEN NaN ELSE text

ParseSheet(sheet) ==
    [columns |-> sheet.columns,
     rows |-> [i \in 1..Len(sheet.rows) |->
                 [k \in sheet.columns |-> ParseCell(sheet.rows[i][k])]]]

\* The file states: absent, present but no readable Excel file, or an Excel file
MissingFile == [kind |-> "missing", sheets |-> EmptyDict]
CorruptFile == [kind |-> "corrupt", sheets |-> EmptyDict]
ExcelFile(sheets) == [kind |-> "xlsx", sheets |-> sheets]

\* The body of load_workbook on the file f: pd.ExcelFile raises
\* FileNotFoundError for an absent file and, for a file it cannot read as
\* Excel, an exception that is no FileNotFoundError (ValueError for an unknown
\* format); otherwise every sheet is parsed
ReadExcel(f) ==
    IF f.kind = "missing"
    THEN [tag |-> "raise", exc |-> "FileNotFoundError", value |-> EmptyDict]
    ELSE IF f.kind = "corrupt"
    THEN [tag |-> "raise", exc |-> "ValueError", value |-> EmptyDict]
    ELSE [tag |-> "ok", exc |-> "none",
          value |-> [name \in DOMAIN f.sheets |-> ParseSheet(f.sheets[name])]]

\* load_workbook whose entries are never hit: every call runs the body
load_workbook_AlwaysReads(path, entries, f) ==
    LET r == ReadExcel(f) IN
    [tag |-> r.tag, exc |-> r.exc, value |-> r.value, read |-> TRUE,
     entries |-> IF r.tag = "ok" THEN DictSet(entries, path, r.value) ELSE entries]

\* load_workbook under st.cache_data: a call whose argument has an entry
\* returns the entry and does not run the body; a call that returns adds its
\* entry; a call that raises adds none
load_workbook(path, entries, f) ==
    IF path \in DOMAIN entries
    THEN [tag |-> "ok", exc |-> "none", value |-> entries[path],
          read |-> FALSE, entries |-> entries]
    ELSE LET r == ReadExcel(f) IN
         [tag |-> r.tag, exc |-> r.exc, value |-> r.value, read |-> TRUE,
          entries |-> IF r.tag = "ok" THEN DictSet(entries, path, r.value) ELSE entries]

-----------------------------------------------------------------------------
(* prepare_lists *)

\* Series.dropna().unique().tolist() of column col
RECURSIVE UniqueFrom(_, _, _, _)
UniqueFrom(rows, col, i, acc) ==
    IF i > Len(rows) THEN acc
    ELSE LET v == rows[i][col] IN
         IF v = NaN \/ (\E j \in 1..Len(acc) : acc[j] = v)
         THEN UniqueFrom(rows, col, i + 1, acc)
         ELSE UniqueFrom(rows, col, i + 1, Append(acc, v))

\* the column as a plain list: neither dropna() nor unique()
DropnaUnique_PlainList(df, col) == [i \in 1..Len(df.rows) |-> df.rows[i][col]]

DropnaUnique(df, col) == UniqueFrom(df.rows, col, 1, <<>>)

\* df.set_index(key)[col].to_dict(): the rows are written into the dict in
\* order, so a later row overwrites an earlier row of the same key
RECURSIVE ToDictFrom(_, _, _, _, _)
ToDictFrom(rows, key, col, i, acc) ==
    IF i > Len(rows) THEN acc
    ELSE ToDictFrom(rows, key, col, i + 1, DictSet(acc, rows[i][key], rows[i][col]))

SetIndexToDict(df, key, col) == ToDictFrom(df.rows, key, col, 1, EmptyDict)

NoLists ==
    [senders |-> <<>>, sender_address |-> EmptyDict,
     receivers |-> <<>>, receiver_address |-> EmptyDict, receiver_ogrn |-> EmptyDict,
     incoterms |-> <<>>]

\* the Sender block; selecting a column the frame lacks raises KeyError
SenderLists(d) ==
    IF SenderSheet \in DOMAIN d /\ "CompanyName" \in d[SenderSheet].columns
    THEN IF "CompanyAddress" \in d[SenderSheet].columns
         THEN [tag |-> "ok",
               senders |-> DropnaUnique(d[SenderSheet], "CompanyName"),
               sender_address |-> SetIndexToDict(d[SenderSheet], "CompanyName", "CompanyAddress")]
         ELSE [tag |-> "raise", senders |-> <<>>, sender_address |-> EmptyDict]
    ELSE [tag |-> "ok", senders |-> <<>>, sender_address |-> EmptyDict]

\* the Receiver/Carrier block
ReceiverLists(d) ==
    IF ReceiverSheet \in DOMAIN d /\ "Name" \in d[ReceiverSheet].columns
    THEN [receivers |-> DropnaUnique(d[ReceiverSheet], "Name"),
          receiver_address |->
              IF "Address" \in d[ReceiverSheet].columns
              THEN SetIndexToDict(d[ReceiverSheet], "Name", "Address") ELSE EmptyDict,
          receiver_ogrn |->
              IF "OGRN.1" \in d[ReceiverSheet].columns
              THEN SetIndexToDict(d[ReceiverSheet], "Name", "OGRN.1") ELSE EmptyDict]
    ELSE [receivers |-> <<>>, receiver_address |-> EmptyDict, receiver_ogrn |-> EmptyDict]

\* the delivery-terms block
ExtraLists(d) ==
    IF ExtraSheet \in DOMAIN d /\ "DeliveryTerms" \in d[ExtraSheet].columns
    THEN DropnaUnique(d[ExtraSheet], "DeliveryTerms")
    ELSE <<>>

prepare_lists(d) ==
    LET s == SenderLists(d)
        r == ReceiverLists(d)
    IN IF s.tag = "raise"
       THEN [tag |-> "raise", exc |-> "KeyError", value |-> NoLists]
       ELSE [tag |-> "ok", exc |-> "none",
             value |-> [senders |-> s.senders, sender_address |-> s.sender_address,
                        receivers |-> r.receivers, receiver_address |-> r.receiver_address,
                        receiver_ogrn |-> r.receiver_ogrn,
                        incoterms |-> ExtraLists(d)]]

-----------------------------------------------------------------------------
(* to_excel_bytes *)

\* The keys of each record dict, in the insertion order of its literal
CMRColumns ==
    <<"Sender", "SenderAddress", "Receiver", "ReceiverAddress", "Carrier",
      "CarrierAddress", "DeliveryTerms", "ContractNo", "InvoiceNo", "CMRNo">>

SpecColumns ==
    <<"Seller", "SellerAddress", "Receiver", "ReceiverAddress", "ContractNo",
      "SpecNo", "Goods", "Currency">>

InvoiceColumns ==
    <<"Exporter", "ExporterAddress", "Buyer", "BuyerAddress", "InvoiceNo",
      "InvoiceDate", "ContractNo", "DeliveryTerms", "Goods">>

\* pd.DataFrame(records): the columns are the keys that occur in the records,
\* in insertion order (none for an empty list), one row per record
DataFrame(records, order) ==
    LET Occurs(c) == \E i \in 1..Len(records) : c \in DOMAIN records[i]
        cols == SelectSeq(order, Occurs)
    IN [columns |-> cols,
        rows |-> [i \in 1..Len(records) |->
                    [j \in 1..Len(cols) |-> DictGet(records[i], cols[j], NaN)]]]

\* A cell as df.to_excel writes it: NaN and None give an empty cell
WriteCell(v) == IF v \in {NaN, None} THEN Empty ELSE v

\* df.to_excel(writer, sheet_name) with the index column left in
ToExcelSheet_WithIndex(df) ==
    [header |-> <<Empty>> \o df.columns,
     cells |-> [i \in 1..Len(df.rows) |->
                  <<ToString(i - 1)>> \o
                  [j \in 1..Len(df.columns) |-> WriteCell(df.rows[i][j])]]]

\* df.to_excel(writer, sheet_name, index=False): a header row of the column
\* names, then one row per record
ToExcelSheet(df) ==
    [header |-> df.columns,
     cells |-> [i \in 1..Len(df.rows) |->
                  [j \in 1..Len(df.columns) |-> WriteCell(df.rows[i][j])]]]

to_excel_bytes(d) == [sheet_name \in DOMAIN d |-> ToExcelSheet(d[sheet_name])]

-----------------------------------------------------------------------------
(* main: the forms *)

\* st.selectbox: one of the options, None when there are none
Selectbox(options) ==
    IF options = <<>> THEN {None} ELSE {options[i] : i \in 1..Len(options)}

\* what a user may type into a st.text_input or st.text_area
TextInputs == {Empty, "17"}

\* what a user may pick in st.date_input
DateInputs == {"2024-05-01"}

Currencies == {"USD", "EUR", "RUB", "CNY"}

\* the CMR dict with the carrier's address looked up for the receiver
CMRRecord_CarrierFromReceiver(l, sender, receiver, carrier, incoterm, contract_no, invoice_no, cmr_no) ==
    [Sender |-> sender,
     SenderAddress |-> DictGet(l.sender_address, sender, Empty),
     Receiver |-> receiver,
     ReceiverAddress |-> DictGet(l.receiver_address, receiver, Empty),
     Carrier |-> carrier,
     CarrierAddress |-> DictGet(l.receiver_address, receiver, Empty),
     DeliveryTerms |-> incoterm,
     ContractNo |-> contract_no,
     InvoiceNo |-> invoice_no,
     CMRNo |-> cmr_no]

\* the dict appended by the CMR form
CMRRecord(l, sender, receiver, carrier, incoterm, contract_no, invoice_no, cmr_no) ==
    [Sender |-> sender,
     SenderAddress |-> DictGet(l.sender_address, sender, Empty),
     Receiver |-> receiver,
     ReceiverAddress |-> DictGet(l.receiver_address, receiver, Empty),
     Carrier |-> carrier,
     CarrierAddress |-> DictGet(l.receiver_address, carrier, Empty),
     DeliveryTerms |-> incoterm,
     ContractNo |-> contract_no,
     InvoiceNo |-> invoice_no,
     CMRNo |-> cmr_no]

\* the dict appended by the Specification form
SpecRecord(l, seller, consignee, contract_no_spec, spec_no, goods_desc, currency) ==
    [Seller |-> seller,
     SellerAddress |-> DictGet(l.sender_address, seller, Empty),
     Receiver |-> consignee,
     ReceiverAddress |-> DictGet(l.receiver_address, consignee, Empty),
     ContractNo |-> contract_no_spec,
     SpecNo |-> spec_no,
     Goods |-> goods_desc,
     Currency |-> currency]

\* the dict appended by the Invoice form
InvoiceRecord(l, exporter, buyer, invoice_number, invoice_date, contract_no_inv, incoterm_inv, goods_list_inv) ==
    [Exporter |-> exporter,
     ExporterAddress |-> DictGet(l.sender_address, exporter, Empty),
     Buyer |-> buyer,
     BuyerAddress |-> DictGet(l.receiver_address, buyer, Empty),
     InvoiceNo |-> invoice_number,
     InvoiceDate |-> invoice_date,
     ContractNo |-> contract_no_inv,
     DeliveryTerms |-> incoterm_inv,
     Goods |-> goods_list_inv]

\* every record each form can append, given the lists and the typed texts
CMRRecords(l, texts) ==
    { CMRRecord(l, s, r, c, t, n1, n2, n3) :
        s \in Selectbox(l.senders), r \in Selectbox(l.receivers),
        c \in Selectbox(l.receivers), t \in Selectbox(l.incoterms),
        n1 \in texts, n2 \in texts, n3 \in texts }

SpecRecords(l, texts) ==
    { SpecRecord(l, s, r, n1, n2, g, cur) :
        s \in Selectbox(l.senders), r \in Selectbox(l.receivers),
        n1 \in texts, n2 \in texts, g \in texts, cur \in Currencies }

InvoiceRecords(l, texts) ==
    { InvoiceRecord(l, s, r, n1, d, n2, t, g) :
        s \in Selectbox(l.senders), r \in Selectbox(l.receivers),
        n1 \in texts, d \in DateInputs, n2 \in texts,
        t \in Selectbox(l.incoterms), g \in texts }

-----------------------------------------------------------------------------
(* main *)

\* lines 77-84 with the 'return' of the except branch missing and every
\* exception caught: the error is shown and the forms are rendered all the same
Startup_NoReturn(entries, f) ==
    LET ld == load_workbook(workbook_path, entries, f)
        pl == prepare_lists(ld.value)
    IN [run |-> IF pl.tag = "ok" THEN "rendered" ELSE "raised",
        exc |-> pl.exc,
        st_error |-> (ld.tag = "raise"),
        read |-> ld.read, entries |-> ld.entries,
        data |-> ld.value, lists |-> pl.value]

\* lines 77-84: load the workbook, show the error and return when the file
\* is not found, let any other exception escape, then prepare the lists
Startup(entries, f) ==
    LET ld == load_workbook(workbook_path, entries, f) IN
    IF ld.tag = "raise"
    THEN [run |-> IF ld.exc = "FileNotFoundError" THEN "returned" ELSE "raised",
          exc |-> IF ld.exc = "FileNotFoundError" THEN "none" ELSE ld.exc,
          st_error |-> (ld.exc = "FileNotFoundError"),
          read |-> ld.read, entries |-> ld.entries,
          data |-> EmptyDict, lists |-> NoLists]
    ELSE LET pl == prepare_lists(ld.value) IN
         [run |-> IF pl.tag = "ok" THEN "rendered" ELSE "raised",
          exc |-> pl.exc,
          st_error |-> FALSE,
          read |-> ld.read, entries |-> ld.entries,
          data |-> ld.value, lists |-> pl.value]

\* lines 87-89: the three containers as main creates them
FreshRows == <<>>

\* lines 126-131, 160-165, 196-201: a table with records is turned into the
\* bytes of its download button; an empty table shows no button
Download(rows, sheet_name, order) ==
    IF rows # <<>>
    THEN to_excel_bytes(sheet_name :> DataFrame(rows, order))
    ELSE EmptyDict

NoDownloads == [CMR |-> EmptyDict, Specification |-> EmptyDict, Invoices |-> EmptyDict]

\* One execution of main: s is the outcome of its lines 77-84, 'button' the
\* submit button that returns True, and cmr, spec, inv are the containers
\* after their forms
Execute(s, button, cmr, spec, inv) ==
    LET shown == (s.run = "rendered")
    IN /\ cache' = s.entries
       /\ readSource' = s.read
       /\ run' = s.run
       /\ exc' = s.exc
       /\ st_error' = s.st_error
       /\ data' = s.data
       /\ lists' = s.lists
       /\ pressed' = button
       /\ cmr_rows' = IF shown THEN cmr ELSE <<>>
       /\ spec_rows' = IF shown THEN spec ELSE <<>>
       /\ invoice_rows' = IF shown THEN inv ELSE <<>>
       /\ downloads' =
            IF shown
            THEN [CMR |-> Download(cmr, "CMR", CMRColumns),
                  Specification |-> Download(spec, "Specification", SpecColumns),
                  Invoices |-> Download(inv, "Invoices", InvoiceColumns)]
            ELSE NoDownloads
       /\ UNCHANGED <<disk, dfs, excel>>

\* an execution with no submit button pressed: the first one of the session,
\* or the one that follows a click on a download button
Rerun == Execute(Startup(cache, disk), "none", FreshRows, FreshRows, FreshRows)

\* the user submits the CMR form of the page on screen
SubmitCMR ==
    /\ run = "rendered"
    /\ LET s == Startup(cache, disk) IN
       \E rec \in CMRRecords(s.lists, TextInputs) :
         Execute(s, "cmr", Append(FreshRows, rec), FreshRows, FreshRows)

\* the user submits the Specification form
SubmitSpec ==
    /\ run = "rendered"
    /\ LET s == Startup(cache, disk) IN
       \E rec \in SpecRecords(s.lists, TextInputs) :
         Execute(s, "spec", FreshRows, Append(FreshRows, rec), FreshRows)

\* the user submits the Invoice form
SubmitInvoice ==
    /\ run = "rendered"
    /\ LET s == Startup(cache, disk) IN
       \E rec \in InvoiceRecords(s.lists, TextInputs) :
         Execute(s, "invoice", FreshRows, FreshRows, Append(FreshRows, rec))

-----------------------------------------------------------------------------
(* The session *)

Sheet(columns, rows) == [columns |-> columns, rows |-> rows]

\* every lookup sheet with all its columns
WbFull ==
    (SenderSheet :> Sheet({"CompanyName", "CompanyAddress"},
        << [CompanyName |-> "Acme", CompanyAddress |-> "123 Rd"],
           [CompanyName |-> "Bolt", CompanyAddress |-> Empty] >>))
    @@ (ReceiverSheet :> Sheet({"Name", "Address", "OGRN.1"},
        << [x \in {"Name", "Address", "OGRN.1"} |->
              IF x = "Name" THEN "Bolt" ELSE IF x = "Address" THEN "999 Rd" ELSE "1027"],
           [x \in {"Name", "Address", "OGRN.1"} |->
              IF x = "Name" THEN "Acme" ELSE IF x = "Address" THEN "123 Rd" ELSE Empty] >>))
    @@ (ExtraSheet :> Sheet({"DeliveryTerms"},
        << [DeliveryTerms |-> "FOB"], [DeliveryTerms |-> "CIF"] >>))

\* a sender listed twice, and no other sheet
WbDup ==
    SenderSheet :> Sheet({"CompanyName", "CompanyAddress"},
        << [CompanyName |-> "Acme", CompanyAddress |-> "123 Rd"],
           [CompanyName |-> "Acme", CompanyAddress |-> "999 Rd"] >>)

\* a Sender sheet without its address column
WbNoAddress ==
    SenderSheet :> Sheet({"CompanyName"}, << [CompanyName |-> "Acme"] >>)

SessionFiles ==
    {MissingFile, CorruptFile, ExcelFile(WbFull), ExcelFile(WbDup), ExcelFile(WbNoAddress)}

\* the file at workbook_path is removed, damaged or replaced
ChangeDisk ==
    /\ disk' \in SessionFiles \ {disk}
    /\ UNCHANGED <<cache, run, exc, st_error, readSource, data, lists,
                   cmr_rows, spec_rows, invoice_rows, pressed, downloads, dfs, excel>>

InitSession ==
    /\ cache = EmptyDict
    /\ run = "idle"
    /\ exc = "none"
    /\ st_error = FALSE
    /\ readSource = FALSE
    /\ data = EmptyDict
    /\ lists = NoLists
    /\ cmr_rows = <<>>
    /\ spec_rows = <<>>
    /\ invoice_rows = <<>>
    /\ pressed = "none"
    /\ downloads = NoDownloads
    /\ dfs = EmptyDict
    /\ excel = EmptyDict

Init ==
    /\ disk \in SessionFiles
    /\ InitSession

Next == Rerun \/ SubmitCMR \/ SubmitSpec \/ SubmitInvoice \/ ChangeDisk

Spec == Init /\ [][Next]_vars

-----------------------------------------------------------------------------
(* prepare_lists on every workbook of at most MaxWorkbookRows rows *)

SheetDicts(sheet, n) ==
    (IF n = 0 THEN {EmptyDict} ELSE {}) \cup { sheet :> sh : sh \in SheetsOfSize(sheet, n) }

\* the ways to spread at most n rows over the three sheets
RowCounts(n) == { t \in (0..n) \X (0..n) \X (0..n) : t[1] + t[2] + t[3] <= n }

InitExtract ==
    /\ \E k \in RowCounts(MaxWorkbookRows) :
         \E a \in SheetDicts(SenderSheet, k[1]) :
            \E b \in SheetDicts(ReceiverSheet, k[2]) :
               \E c \in SheetDicts(ExtraSheet, k[3]) :
                  disk = ExcelFile(a @@ b @@ c)
    /\ InitSession

\* lists = prepare_lists(load_workbook(path)) on the file drawn by InitExtract
Extract ==
    /\ run = "idle"
    /\ LET d == ReadExcel(disk).value
           pl == prepare_lists(d)
       IN /\ data' = d
          /\ lists' = pl.value
          /\ exc' = pl.exc
          /\ run' = IF pl.tag = "ok" THEN "extracted" ELSE "raised"
    /\ UNCHANGED <<disk, cache, st_error, readSource, cmr_rows, spec_rows,
                   invoice_rows, pressed, downloads, dfs, excel>>

NextExtract == Extract

SpecExtract == InitExtract /\ [][NextExtract]_vars

-----------------------------------------------------------------------------
(* to_excel_bytes on every table of at most MaxExportRows records *)

RECURSIVE SeqsUpTo(_, _)
SeqsUpTo(S, n) ==
    IF n = 0 THEN {<<>>}
    ELSE SeqsUpTo(S, n - 1) \cup [1..n -> S]

\* the lists the exported records are built from
ExportLists == prepare_lists(ReadExcel(ExcelFile(WbFull)).value).value

ExportInputs ==
    { "CMR" :> DataFrame(rows, CMRColumns) :
        rows \in SeqsUpTo(CMRRecords(ExportLists, {Empty}), MaxExportRows) }
    \cup { "Specification" :> DataFrame(rows, SpecColumns) :
        rows \in SeqsUpTo(SpecRecords(ExportLists, {Empty}), MaxExportRows) }
    \cup { "Invoices" :> DataFrame(rows, InvoiceColumns) :
        rows \in SeqsUpTo(InvoiceRecords(ExportLists, {Empty}), MaxExportRows) }

InitExport ==
    /\ disk = MissingFile
    /\ cache = EmptyDict
    /\ run = "idle"
    /\ exc = "none"
    /\ st_error = FALSE
    /\ readSource = FALSE
    /\ data = EmptyDict
    /\ lists = NoLists
    /\ cmr_rows = <<>>
    /\ spec_rows = <<>>
    /\ invoice_rows = <<>>
    /\ pressed = "none"
    /\ downloads = NoDownloads
    /\ dfs \in ExportInputs
    /\ excel = EmptyDict

\* excel = to_excel_bytes(dfs)
Export ==
    /\ run = "idle"
    /\ excel' = to_excel_bytes(dfs)
    /\ run' = "exported"
    /\ UNCHANGED <<disk, cache, exc, st_error, readSource, data, lists,
                   cmr_rows, spec_rows, invoice_rows, pressed, downloads, dfs>>

NextExport == Export

SpecExport == InitExport /\ [][NextExport]_vars

-----------------------------------------------------------------------------
(* Properties *)

\* rows' is rows with exactly one record added at its end
Appended(rows, rows2) ==
    /\ Len(rows2) = Len(rows) + 1
    /\ SubSeq(rows2, 1, Len(rows)) = rows

\* C1: every submission adds its record at the end of its own accumulator and
\* keeps every record submitted before it, so that after two CMR submissions
\* cmr_rows holds both records, first-submitted first.
C1_AccumulatorKeepsEveryRecord ==
    [][ /\ SubmitCMR => Appended(cmr_rows, cmr_rows')
        /\ SubmitSpec => Appended(spec_rows, spec_rows')
        /\ SubmitInvoice => Appended(invoice_rows, invoice_rows') ]_vars

\* the first row of df whose key cell is name
FirstRow(df, key, name) ==
    CHOOSE i \in 1..Len(df.rows) :
        /\ df.rows[i][key] = name
        /\ \A j \in 1..(i - 1) : df.rows[j][key] # name

\* the mapping m gives every name of the key column the attribute of the
\* first row that carries the name
FirstWins(df, key, col, m) ==
    \A i \in 1..Len(df.rows) :
        LET name == df.rows[i][key] IN
        name # NaN => /\ name \in DOMAIN m
                      /\ m[name] = df.rows[FirstRow(df, key, name)][col]

HasColumns(sheet, cols) == sheet \in DOMAIN data /\ cols \subseteq data[sheet].columns

\* C2: each attribute mapping returned by prepare_lists maps a name to the
\* attribute of the row where the name first appears.
C2_FirstOccurrenceWins ==
    run = "extracted" =>
        /\ HasColumns(SenderSheet, {"CompanyName", "CompanyAddress"}) =>
             FirstWins(data[SenderSheet], "CompanyName", "CompanyAddress", lists.sender_address)
        /\ HasColumns(ReceiverSheet, {"Name", "Address"}) =>
             FirstWins(data[ReceiverSheet], "Name", "Address", lists.receiver_address)
        /\ HasColumns(ReceiverSheet, {"Name", "OGRN.1"}) =>
             FirstWins(data[ReceiverSheet], "Name", "OGRN.1", lists.receiver_ogrn)

Lacks(sheet, col) == sheet \in DOMAIN data /\ col \notin data[sheet].columns

LacksSomeColumn ==
    \E sheet \in {SenderSheet, ReceiverSheet, ExtraSheet} :
        \E col \in SheetColumns(sheet) : Lacks(sheet, col)

\* C3: for a workbook whose lookup sheet is present but lacks its key column
\* or an attribute column, prepare_lists returns, and returns the affected
\* list and mappings empty.
C3_MissingColumnNeverRaises ==
    (run # "idle" /\ LacksSomeColumn) =>
        /\ run = "extracted"
        /\ Lacks(SenderSheet, "CompanyName") =>
             lists.senders = <<>> /\ lists.sender_address = EmptyDict
        /\ Lacks(SenderSheet, "CompanyAddress") => lists.sender_address = EmptyDict
        /\ Lacks(ReceiverSheet, "Name") =>
             /\ lists.receivers = <<>>
             /\ lists.receiver_address = EmptyDict
             /\ lists.receiver_ogrn = EmptyDict
        /\ Lacks(ReceiverSheet, "Address") => lists.receiver_address = EmptyDict
        /\ Lacks(ReceiverSheet, "OGRN.1") => lists.receiver_ogrn = EmptyDict
        /\ Lacks(ExtraSheet, "DeliveryTerms") => lists.incoterms = <<>>

SomeSheetAbsent == {SenderSheet, ReceiverSheet, ExtraSheet} \ (DOMAIN data) # {}

\* C4: for a workbook in which a lookup sheet is absent, prepare_lists
\* returns; the lookups of an absent sheet are empty, the lookups of a sheet
\* that is there are taken from that sheet, and a selector without delivery
\* terms still renders (it offers None).
C4_MissingSheetGivesEmptyLookup ==
    (run # "idle" /\ SomeSheetAbsent) =>
        /\ run = "extracted"
        /\ SenderSheet \notin DOMAIN data =>
             lists.senders = <<>> /\ lists.sender_address = EmptyDict
        /\ ReceiverSheet \notin DOMAIN data =>
             /\ lists.receivers = <<>>
             /\ lists.receiver_address = EmptyDict
             /\ lists.receiver_ogrn = EmptyDict
        /\ ExtraSheet \notin DOMAIN data =>
             lists.incoterms = <<>> /\ Selectbox(lists.incoterms) = {None}
        /\ HasColumns(SenderSheet, {"CompanyName"}) =>
             \A i \in 1..Len(data[SenderSheet].rows) :
                LET v == data[SenderSheet].rows[i]["CompanyName"] IN
                v # NaN => \E j \in 1..Len(lists.senders) : lists.senders[j] = v
        /\ HasColumns(ReceiverSheet, {"Name"}) =>
             \A i \in 1..Len(data[ReceiverSheet].rows) :
                LET v == data[ReceiverSheet].rows[i]["Name"] IN
                v # NaN => \E j \in 1..Len(lists.receivers) : lists.receivers[j] = v
        /\ HasColumns(ExtraSheet, {"DeliveryTerms"}) =>
             \A i \in 1..Len(data[ExtraSheet].rows) :
                LET v == data[ExtraSheet].rows[i]["DeliveryTerms"] IN
                v # NaN => \E j \in 1..Len(lists.incoterms) : lists.incoterms[j] = v

\* the list L holds each non-empty cell of column col of the file's sheet
\* exactly once, in the order of first appearance, and nothing else
DistinctInOrder(sheet, col, L) ==
    LET cells == disk.sheets[sheet].rows
        First(v) == CHOOSE i \in 1..Len(cells) :
                        /\ cells[i][col] = v
                        /\ \A j \in 1..(i - 1) : cells[j][col] # v
    IN /\ { L[i] : i \in 1..Len(L) } = { cells[i][col] : i \in 1..Len(cells) } \ {Empty}
       /\ \A i, j \in 1..Len(L) : i # j => L[i] # L[j]
       /\ \A i \in 1..Len(L) : L[i] \notin {Empty, NaN, None}
       /\ \A i, j \in 1..Len(L) : i < j => First(L[i]) < First(L[j])

FileHasColumn(sheet, col) ==
    sheet \in DOMAIN disk.sheets /\ col \in disk.sheets[sheet].columns

\* C5: for every lookup sheet that has its key column, the list returned by
\* prepare_lists holds each non-empty value of the key column exactly once,
\* in the order of first appearance, and no empty or missing value.
C5_DistinctValuesInFirstSeenOrder ==
    run = "extracted" =>
        /\ FileHasColumn(SenderSheet, "CompanyName") =>
             DistinctInOrder(SenderSheet, "CompanyName", lists.senders)
        /\ FileHasColumn(ReceiverSheet, "Name") =>
             DistinctInOrder(ReceiverSheet, "Name", lists.receivers)
        /\ FileHasColumn(ExtraSheet, "DeliveryTerms") =>
             DistinctInOrder(ExtraSheet, "DeliveryTerms", lists.incoterms)

\* a sheet whose key column lists two names in an order that is not sorted
C5_Witness ==
    /\ run = "extracted"
    /\ FileHasColumn(ReceiverSheet, "Name")
    /\ Len(disk.sheets[ReceiverSheet].rows) = 2
    /\ disk.sheets[ReceiverSheet].rows[1]["Name"] = "Bolt"
    /\ disk.sheets[ReceiverSheet].rows[2]["Name"] = "Acme"
    /\ lists.receivers = <<"Bolt", "Acme">>

\* the last execution ran the body of load_workbook and it raised
LoadFailed == readSource /\ workbook_path \notin DOMAIN cache

\* C6: when the workbook cannot be loaded (file missing, or not readable as
\* Excel) the user is shown the failure (the st.error message, or the
\* exception that leaves main), prepare_lists is not run, no form is rendered
\* and no record can be appended while the load keeps failing.
C6_LoadFailureHaltsTheSession ==
    LoadFailed =>
        /\ st_error \/ exc # "none"
        /\ run \in {"returned", "raised"}
        /\ data = EmptyDict /\ lists = NoLists
        /\ cmr_rows = <<>> /\ spec_rows = <<>> /\ invoice_rows = <<>>
        /\ downloads = NoDownloads
        /\ ~ ENABLED SubmitCMR /\ ~ ENABLED SubmitSpec /\ ~ ENABLED SubmitInvoice

\* the file is there but is no Excel file
C6_Witness ==
    /\ LoadFailed
    /\ disk.kind = "corrupt"
    /\ exc = "ValueError"
    /\ run = "raised"

\* C7: once load_workbook has an entry for the path, every later execution
\* gets that same parsed workbook and does not read the file again, whatever
\* the file has become; the entry is never replaced.
C7_CachedWorkbookIsNotReadAgain ==
    [][ (workbook_path \in DOMAIN cache) =>
          ( /\ cache' = cache
            /\ (disk' = disk => (~ readSource' /\ data' = cache[workbook_path])) ) ]_vars

\* an execution that used the entry although the file now holds other sheets
C7_Witness ==
    /\ workbook_path \in DOMAIN cache
    /\ ~ readSource
    /\ run = "rendered"
    /\ disk.kind = "xlsx"
    /\ ReadExcel(disk).value # data
    /\ data = cache[workbook_path]

NoRecords(d) == \A name \in DOMAIN d : d[name].rows = <<>>

\* C8: to_excel_bytes on a table without records returns a workbook that has
\* the table's sheet with no column and no data row.
C8_EmptyExportIsDefined ==
    (run = "exported" /\ NoRecords(dfs)) =>
        /\ DOMAIN excel = DOMAIN dfs
        /\ \A name \in DOMAIN excel :
             excel[name].header = <<>> /\ excel[name].cells = <<>>

C8_Witness ==
    /\ run = "exported"
    /\ NoRecords(dfs)
    /\ DOMAIN dfs = {"CMR"}
    /\ "CMR" \in DOMAIN excel

\* the address the rule table attaches to a chosen name
Resolved(mapping, name) == IF name \in DOMAIN mapping THEN mapping[name] ELSE Empty

\* C9: every appended record pairs each address field with the lookup of the
\* name chosen in its selection ("" when the name has no entry): CMR sender
\* -> sender_address, receiver and carrier -> receiver_address; Specification
\* seller -> sender_address, consignee -> receiver_address; Invoice exporter
\* -> sender_address, buyer -> receiver_address; and every form can be
\* submitted whatever was selected or typed: the execution a submit button
\* starts appends one record.
C9_RecordsFollowTheRuleTable ==
    /\ \A i \in 1..Len(cmr_rows) :
         /\ cmr_rows[i].SenderAddress = Resolved(lists.sender_address, cmr_rows[i].Sender)
         /\ cmr_rows[i].ReceiverAddress = Resolved(lists.receiver_address, cmr_rows[i].Receiver)
         /\ cmr_rows[i].CarrierAddress = Resolved(lists.receiver_address, cmr_rows[i].Carrier)
    /\ \A i \in 1..Len(spec_rows) :
         /\ spec_rows[i].SellerAddress = Resolved(lists.sender_address, spec_rows[i].Seller)
         /\ spec_rows[i].ReceiverAddress = Resolved(lists.receiver_address, spec_rows[i].Receiver)
    /\ \A i \in 1..Len(invoice_rows) :
         /\ invoice_rows[i].ExporterAddress = Resolved(lists.sender_address, invoice_rows[i].Exporter)
         /\ invoice_rows[i].BuyerAddress = Resolved(lists.receiver_address, invoice_rows[i].Buyer)
    /\ run = "rendered" =>
         /\ pressed = "cmr" => Len(cmr_rows) = 1
         /\ pressed = "spec" => Len(spec_rows) = 1
         /\ pressed = "invoice" => Len(invoice_rows) = 1

\* a CMR record submitted with no receiver to select and nothing typed: the
\* sender gets its address, the empty selections get ""
C9_Witness ==
    /\ pressed = "cmr"
    /\ Len(cmr_rows) = 1
    /\ cmr_rows[1].Sender = "Acme" /\ cmr_rows[1].SenderAddress = "999 Rd"
    /\ cmr_rows[1].Receiver = None /\ cmr_rows[1].ReceiverAddress = Empty
    /\ cmr_rows[1].Carrier = None /\ cmr_rows[1].CarrierAddress = Empty
    /\ cmr_rows[1].ContractNo = Empty
    /\ cmr_rows[1].InvoiceNo = Empty
    /\ cmr_rows[1].CMRNo = Empty

\* C10: a submission to one form leaves the accumulators of the two other
\* document types, and their downloads, as they were.
C10_SubmissionChangesOnlyItsAccumulator ==
    [][ /\ SubmitCMR =>
             /\ spec_rows' = spec_rows /\ invoice_rows' = invoice_rows
             /\ downloads'.Specification = downloads.Specification
             /\ downloads'.Invoices = downloads.Invoices
        /\ SubmitSpec =>
             /\ cmr_rows' = cmr_rows /\ invoice_rows' = invoice_rows
             /\ downloads'.CMR = downloads.CMR
             /\ downloads'.Invoices = downloads.Invoices
        /\ SubmitInvoice =>
             /\ cmr_rows' = cmr_rows /\ spec_rows' = spec_rows
             /\ downloads'.CMR = downloads.CMR
             /\ downloads'.Specification = downloads.Specification ]_vars

====
